---- MODULE Spec2Model ----
(***************************************************************************)
(* A model of gprMax's multi-use directive parser (process_multicmds in    *)
(* input_cmds_multiuse.py) and of its simulation configuration resolver    *)
(* (SimulationConfig, SimulationConfigMPI, create_simulation_config in     *)
(* config.py).                                                             *)
(*                                                                         *)
(* A behaviour is one call: either process_multicmds(multicmds), stepped   *)
(* one loop iteration at a time through the sixteen directive blocks in    *)
(* source order, or create_simulation_config(args), stepped one method of  *)
(* SimulationConfig.__init__ at a time.                                    *)
(*                                                                         *)
(* Python indices are kept: At(tmp, i) is tmp[i], Slice(tmp, a, b) is      *)
(* tmp[a:b].  A token is the text of one word of a directive instance,     *)
(* held as a record that says how the text reads: a decimal integer        *)
(* literal, a literal with a decimal point, or any other word.  float()    *)
(* yields tenths, int() yields an integer, both raise ValueError on text   *)
(* they do not accept.                                                     *)
(***************************************************************************)
EXTENDS Integers, Sequences, FiniteSets, TLC

VARIABLES mode, multicmds, pc, idx, tmp, scene_objects, outcome,
          args, cpc, cfg, cresult, mc

parservars == <<multicmds, pc, idx, tmp, scene_objects, outcome>>
configvars == <<args, cpc, cfg, cresult, mc>>
vars == <<mode, multicmds, pc, idx, tmp, scene_objects, outcome,
          args, cpc, cfg, cresult, mc>>

----------------------------------------------------------------------------
(* Bounds of the model.                                                    *)

\* longest raw directive instance, in words
MaxLen == 13
\* most instances of one directive in a table with several directives
\* (#pml_cfs gets one more, to pass its limit of two)
MaxInst == 2
\* largest model count args.n
MaxN == 3
\* largest args.task
MaxTask == 3
\* largest args.restart
MaxRestart == 3
\* largest model index i handed to ModelConfig
MaxIndex == 2

----------------------------------------------------------------------------
(* Tokens and the Python conversions applied to them.                      *)

IntTok(n) == [k |-> "int", n |-> n, s |-> ""]
DecTok(t) == [k |-> "dec", n |-> t, s |-> ""]
WordTok(s) == [k |-> "word", n |-> 0, s |-> s]

\* the empty piece that two adjacent blanks leave in a raw instance string
Blank == WordTok("")

\* str.split(): the words of the string, runs of whitespace dropped
split(cmdinstance) == SelectSeq(cmdinstance, LAMBDA w : w # Blank)

\* tmp[i], i counted from 0
At(t, i) == t[i + 1]

\* tmp[a:b] for 0 <= a, b = len(tmp)
Slice(t, a, b) == IF a >= b THEN << >> ELSE [i \in 1..(b - a) |-> t[a + i]]

\* int(tok) raises ValueError unless the text is an integer literal
IntOK(tok) == tok.k = "int"
PyInt(tok) == tok.n

\* float(tok) raises ValueError on a word; the value is kept in tenths
FloatOK(tok) == tok.k \in {"int", "dec"}
PyFloat(tok) == [tenths |-> IF tok.k = "int" THEN 10 * tok.n ELSE tok.n]

LowerStr(s) == CASE s = "Z" -> "z" [] s = "X" -> "x" [] OTHER -> s
\* str.lower()
Lower(tok) == IF tok.k = "word" THEN WordTok(LowerStr(tok.s)) ELSE tok

AllFloat(t, S) == \A i \in S : FloatOK(At(t, i))
Triple(t, i) == <<PyFloat(At(t, i)), PyFloat(At(t, i + 1)), PyFloat(At(t, i + 2))>>

----------------------------------------------------------------------------
(* What one loop iteration does with the tokens of one instance.           *)

Ok(obj) == [err |-> "", reason |-> "", appended |-> <<obj>>]
NoAppend == [err |-> "", reason |-> "", appended |-> << >>]
Raise(type, reason) == [err |-> type, reason |-> reason, appended |-> << >>]

ParseWaveform(t) ==
  IF Len(t) # 4 THEN Raise("CmdInputError", "requires exactly four parameters")
  ELSE IF ~AllFloat(t, {1, 2}) THEN Raise("ValueError", "float")
  ELSE Ok([type |-> "Waveform", wave_type |-> At(t, 0), amp |-> PyFloat(At(t, 1)),
           freq |-> PyFloat(At(t, 2)), id |-> At(t, 3)])

ParseVoltageSource(t) ==
  IF Len(t) = 6 THEN
    IF ~AllFloat(t, {1, 2, 3, 4}) THEN Raise("ValueError", "float")
    ELSE Ok([type |-> "VoltageSource", polarisation |-> Lower(At(t, 0)),
             p1 |-> Triple(t, 1), resistance |-> PyFloat(At(t, 4)),
             waveform_id |-> At(t, 5)])
  ELSE IF Len(t) = 8 THEN
    IF ~AllFloat(t, {1, 2, 3, 4, 6, 7}) THEN Raise("ValueError", "float")
    ELSE Ok([type |-> "VoltageSource", polarisation |-> Lower(At(t, 0)),
             p1 |-> Triple(t, 1), resistance |-> PyFloat(At(t, 4)),
             waveform_id |-> At(t, 5), start |-> PyFloat(At(t, 6)),
             end |-> PyFloat(At(t, 7))])
  ELSE Raise("CmdInputError", "requires at least six parameters")

\* the shared shape of #hertzian_dipole and #magnetic_dipole
ParseDipole(type, t) ==
  IF Len(t) < 5 THEN Raise("CmdInputError", "requires at least five parameters")
  ELSE IF Len(t) = 5 THEN
    IF ~AllFloat(t, {1, 2, 3}) THEN Raise("ValueError", "float")
    ELSE Ok([type |-> type, polarisation |-> At(t, 0), p1 |-> Triple(t, 1),
             waveform_id |-> At(t, 4)])
  ELSE IF Len(t) = 7 THEN
    IF ~AllFloat(t, {1, 2, 3, 5, 6}) THEN Raise("ValueError", "float")
    ELSE Ok([type |-> type, polarisation |-> At(t, 0), p1 |-> Triple(t, 1),
             waveform_id |-> At(t, 4), start |-> PyFloat(At(t, 5)),
             end |-> PyFloat(At(t, 6))])
  ELSE Raise("CmdInputError", "too many parameters")

ParseHertzianDipole(t) == ParseDipole("HertzianDipole", t)

ParseMagneticDipole(t) == ParseDipole("MagneticDipole", t)

ParseTransmissionLine(t) ==
  IF Len(t) < 6 THEN Raise("CmdInputError", "requires at least six parameters")
  ELSE IF Len(t) = 6 THEN
    IF ~AllFloat(t, {1, 2, 3, 4}) THEN Raise("ValueError", "float")
    ELSE Ok([type |-> "TransmissionLine", polarisation |-> At(t, 0),
             p1 |-> Triple(t, 1), resistance |-> PyFloat(At(t, 4)),
             waveform_id |-> At(t, 5)])
  ELSE IF Len(t) = 8 THEN
    IF ~AllFloat(t, {1, 2, 3, 4}) THEN Raise("ValueError", "float")
    ELSE Ok([type |-> "TransmissionLine", polarisation |-> At(t, 0),
             p1 |-> Triple(t, 1), resistance |-> PyFloat(At(t, 4)),
             waveform_id |-> At(t, 5), start |-> At(t, 6), end |-> At(t, 7)])
  ELSE Raise("CmdInputError", "too many parameters")

\* ParseRx with the arity test weakened to len(tmp) < 3
MutParseRx(t) ==
  IF Len(t) < 3
  THEN Raise("CmdInputError", "has an incorrect number of parameters")
  ELSE IF ~AllFloat(t, {0, 1, 2}) THEN Raise("ValueError", "float")
  ELSE IF Len(t) = 3 THEN Ok([type |-> "Rx", p1 |-> Triple(t, 0)])
  ELSE Ok([type |-> "Rx", p1 |-> Triple(t, 0), id |-> At(t, 3),
           outputs |-> Slice(t, 4, Len(t))])

ParseRx(t) ==
  IF Len(t) # 3 /\ Len(t) < 5
  THEN Raise("CmdInputError", "has an incorrect number of parameters")
  ELSE IF ~AllFloat(t, {0, 1, 2}) THEN Raise("ValueError", "float")
  ELSE IF Len(t) = 3 THEN Ok([type |-> "Rx", p1 |-> Triple(t, 0)])
  ELSE Ok([type |-> "Rx", p1 |-> Triple(t, 0), id |-> At(t, 3),
           outputs |-> Slice(t, 4, Len(t))])

\* RxArray is not among the names the module imports (lines 36-51), so the
\* call on line 167 raises NameError once the nine floats are converted
ParseRxArray(t) ==
  IF Len(t) # 9 THEN Raise("CmdInputError", "requires exactly nine parameters")
  ELSE IF ~AllFloat(t, 0..8) THEN Raise("ValueError", "float")
  ELSE Raise("NameError", "name 'RxArray' is not defined")

\* ParseSnapshot with the two conversions tried in the other order
MutParseSnapshot(t) ==
  IF Len(t) # 11 THEN Raise("CmdInputError", "requires exactly eleven parameters")
  ELSE IF ~AllFloat(t, 0..8) THEN Raise("ValueError", "float")
  ELSE IF FloatOK(At(t, 9))
    THEN Ok([type |-> "Snapshot", p1 |-> Triple(t, 0), p2 |-> Triple(t, 3),
             dl |-> Triple(t, 6), time |-> PyFloat(At(t, 9)),
             filename |-> At(t, 10)])
  ELSE Raise("ValueError", "float")

ParseSnapshot(t) ==
  IF Len(t) # 11 THEN Raise("CmdInputError", "requires exactly eleven parameters")
  ELSE IF ~AllFloat(t, 0..8) THEN Raise("ValueError", "float")
  ELSE IF IntOK(At(t, 9))
    THEN Ok([type |-> "Snapshot", p1 |-> Triple(t, 0), p2 |-> Triple(t, 3),
             dl |-> Triple(t, 6), iterations |-> PyInt(At(t, 9)),
             filename |-> At(t, 10)])
  ELSE IF FloatOK(At(t, 9))
    THEN Ok([type |-> "Snapshot", p1 |-> Triple(t, 0), p2 |-> Triple(t, 3),
             dl |-> Triple(t, 6), time |-> PyFloat(At(t, 9)),
             filename |-> At(t, 10)])
  ELSE Raise("ValueError", "float")

ParseMaterial(t) ==
  IF Len(t) # 5 THEN Raise("CmdInputError", "requires exactly five parameters")
  ELSE IF ~AllFloat(t, 0..3) THEN Raise("ValueError", "float")
  ELSE Ok([type |-> "Material", er |-> PyFloat(At(t, 0)), se |-> PyFloat(At(t, 1)),
           mr |-> PyFloat(At(t, 2)), sm |-> PyFloat(At(t, 3)), id |-> At(t, 4)])

\* the first j in 0..width-1 at which tmp[pole + j] cannot be read as a
\* float, or -1: the index is past the end (IndexError) or the text is no
\* number (ValueError)
FirstBad(t, pole, width) ==
  LET B == {j \in 0..(width - 1) : pole + j >= Len(t) \/ ~FloatOK(At(t, pole + j))}
  IN IF B = {} THEN -1 ELSE CHOOSE j \in B : \A i \in B : j <= i

\* for pole in range(pole, stop, step): append float(tmp[pole + j]) to
\* column j, for j = 0..width-1
RECURSIVE PoleLoop(_, _, _, _, _, _)
PoleLoop(t, pole, stop, step, width, cols) ==
  IF pole >= stop THEN [err |-> "", cols |-> cols]
  ELSE LET b == FirstBad(t, pole, width)
       IN IF b # -1
          THEN [err |-> IF pole + b >= Len(t) THEN "IndexError" ELSE "ValueError",
                cols |-> cols]
          ELSE PoleLoop(t, pole + step, stop, step, width,
                        [j \in 1..width |-> Append(cols[j], PyFloat(At(t, pole + j - 1)))])

ParseDebye(t) ==
  IF Len(t) < 4 THEN Raise("CmdInputError", "requires at least four parameters")
  ELSE IF ~IntOK(At(t, 0)) THEN Raise("ValueError", "int")
  ELSE LET poles == PyInt(At(t, 0))
           material_ids == Slice(t, (2 * poles) + 1, Len(t))
           loop == PoleLoop(t, 1, 2 * poles, 2, 2, << << >>, << >> >>)
       IN IF loop.err # "" THEN Raise(loop.err, "loop")
          ELSE Ok([type |-> "AddDebyeDispersion", pole |-> poles,
                   er_delta |-> loop.cols[1], tau |-> loop.cols[2],
                   material_ids |-> material_ids])

ParseLorentz(t) ==
  IF Len(t) < 5 THEN Raise("CmdInputError", "requires at least five parameters")
  ELSE IF ~IntOK(At(t, 0)) THEN Raise("ValueError", "int")
  ELSE LET poles == PyInt(At(t, 0))
           material_ids == Slice(t, (3 * poles) + 1, Len(t))
           loop == PoleLoop(t, 1, 3 * poles, 3, 3, << << >>, << >>, << >> >>)
       IN IF loop.err # "" THEN Raise(loop.err, "loop")
          ELSE Ok([type |-> "AddLorentzDispersion", poles |-> poles,
                   er_delta |-> loop.cols[1], tau |-> loop.cols[2],
                   alpha |-> loop.cols[3], material_ids |-> material_ids])

ParseDrude(t) ==
  IF Len(t) < 5 THEN Raise("CmdInputError", "requires at least five parameters")
  ELSE IF ~IntOK(At(t, 0)) THEN Raise("ValueError", "int")
  ELSE LET poles == PyInt(At(t, 0))
           material_ids == Slice(t, (3 * poles) + 1, Len(t))
           loop == PoleLoop(t, 1, 2 * poles, 2, 2, << << >>, << >> >>)
       IN IF loop.err # "" THEN Raise(loop.err, "loop")
          ELSE Ok([type |-> "AddDrudeDispersion", poles |-> poles,
                   tau |-> loop.cols[1], alpha |-> loop.cols[2],
                   material_ids |-> material_ids])

ParseSoilPeplinski(t) ==
  IF Len(t) # 7 THEN Raise("CmdInputError", "requires at exactly seven parameters")
  ELSE IF ~AllFloat(t, 0..5) THEN Raise("ValueError", "float")
  ELSE Ok([type |-> "SoilPeplinski", sand_fraction |-> PyFloat(At(t, 0)),
           clay_fraction |-> PyFloat(At(t, 1)), bulk_density |-> PyFloat(At(t, 2)),
           sand_density |-> PyFloat(At(t, 3)),
           water_fraction_lower |-> PyFloat(At(t, 4)),
           water_fraction_upper |-> PyFloat(At(t, 5)), id |-> At(t, 6)])

ParseGeometryView(t) ==
  IF Len(t) # 11 THEN Raise("CmdInputError", "requires exactly eleven parameters")
  ELSE IF ~AllFloat(t, 0..8) THEN Raise("ValueError", "float")
  ELSE Ok([type |-> "GeometryView", p1 |-> Triple(t, 0), p2 |-> Triple(t, 3),
           dl |-> Triple(t, 6), filename |-> At(t, 9), output_type |-> At(t, 10)])

\* lines 306-309 are indented under the raise of line 304: they never run,
\* and an instance of seven tokens falls through the loop body
ParseGeometryObjectsWrite(t) ==
  IF Len(t) # 7 THEN Raise("CmdInputError", "requires exactly seven parameters")
  ELSE NoAppend

ParsePMLCFS(t) ==
  IF Len(t) # 12 THEN Raise("CmdInputError", "requires exactly twelve parameters")
  ELSE Ok([type |-> "PMLCFS",
           alphascalingprofile |-> At(t, 0), alphascalingdirection |-> At(t, 1),
           alphamin |-> At(t, 2), alphamax |-> At(t, 3),
           kappascalingprofile |-> At(t, 4), kappascalingdirection |-> At(t, 5),
           kappamin |-> At(t, 6), kappamax |-> At(t, 7),
           sigmascalingprofile |-> At(t, 8), sigmascalingdirection |-> At(t, 9),
           sigmamin |-> At(t, 10), sigmamax |-> At(t, 11)])

----------------------------------------------------------------------------
(* The argument of process_multicmds: for each directive name None or a    *)
(* list of raw instance strings.                                           *)

\* the directive names in the order their blocks stand in the source
Kinds == <<"#waveform", "#voltage_source", "#hertzian_dipole", "#magnetic_dipole",
           "#transmission_line", "#rx", "#rx_array", "#snapshot", "#material",
           "#add_dispersion_debye", "#add_dispersion_lorentz",
           "#add_dispersion_drude", "#soil_peplinski", "#geometry_view",
           "#geometry_objects_write", "#pml_cfs">>
KindSet == {Kinds[i] : i \in 1..Len(Kinds)}

NoneCmd == [isNone |-> TRUE, list |-> << >>]
ListCmd(l) == [isNone |-> FALSE, list |-> l]

\* a raw instance of n words, all of them numerals, each naming its place
Template(n) == [i \in 1..n |-> IntTok(i)]

\* the words put in place of one word of a template: other pole counts,
\* numbers with a decimal point, words that are no numbers, an extra blank
Alphabet == {IntTok(0), IntTok(2), IntTok(3), IntTok(100), DecTok(100), DecTok(1005),
             WordTok("Z"), WordTok("ab"), Blank}

Instances(n) == {Template(n)} \cup
                {[Template(n) EXCEPT ![p] = w] : p \in 1..n, w \in Alphabet}
AllInstances == UNION {Instances(n) : n \in 0..MaxLen}

\* tables that hold one instance of one directive
SingleTables ==
  {[k \in KindSet |-> IF k = kind THEN ListCmd(<<inst>>) ELSE NoneCmd] :
     kind \in KindSet, inst \in AllInstances}

\* the smallest token count the block of a directive accepts
MinArity(kind) ==
  CASE kind = "#waveform" -> 4
    [] kind \in {"#voltage_source", "#transmission_line"} -> 6
    [] kind \in {"#hertzian_dipole", "#magnetic_dipole", "#material",
                 "#add_dispersion_lorentz", "#add_dispersion_drude"} -> 5
    [] kind = "#rx" -> 3
    [] kind = "#rx_array" -> 9
    [] kind \in {"#snapshot", "#geometry_view"} -> 11
    [] kind = "#add_dispersion_debye" -> 4
    [] kind \in {"#soil_peplinski", "#geometry_objects_write"} -> 7
    [] kind = "#pml_cfs" -> 12

\* the j-th instance of a directive in a table of several: well formed, its
\* last word telling it from the other instances of the directive
Tagged(kind, j) ==
  [Template(MinArity(kind)) EXCEPT ![MinArity(kind)] = IntTok(MinArity(kind) + j)]
TaggedList(kind, c) == [j \in 1..c |-> Tagged(kind, j)]

Cap(kind) == IF kind = "#pml_cfs" THEN MaxInst + 1 ELSE MaxInst

\* tables in which at most two directives have instances; a directive
\* without instances is None, or the empty list when emptyLists is set
MultiTables ==
  {[k \in KindSet |->
      IF k = Kinds[a] /\ ca > 0 THEN ListCmd(TaggedList(k, ca))
      ELSE IF k = Kinds[b] /\ cb > 0 THEN ListCmd(TaggedList(k, cb))
      ELSE IF emptyLists THEN ListCmd(<< >>) ELSE NoneCmd] :
     <<a, b>> \in {ab \in (1..Len(Kinds)) \X (1..Len(Kinds)) : ab[1] < ab[2]},
     ca \in 0..MaxInst, cb \in 0..(MaxInst + 1), emptyLists \in BOOLEAN}

Tables == SingleTables \cup
          {m \in MultiTables : \A k \in KindSet : Len(m[k].list) <= Cap(k)}

----------------------------------------------------------------------------
(* process_multicmds, one loop iteration a step.                           *)

Running == [status |-> "running", err |-> "", cmdname |-> "", tokens |-> << >>,
            reason |-> "", value |-> << >>]
Raised(type, cmdname, tokens, reason) ==
  [status |-> "raised", err |-> type, cmdname |-> cmdname, tokens |-> tokens,
   reason |-> reason, value |-> << >>]
Returned(value) ==
  [status |-> "returned", err |-> "", cmdname |-> "", tokens |-> << >>,
   reason |-> "", value |-> value]

Unbound == [bound |-> FALSE, val |-> << >>]
Bound(t) == [bound |-> TRUE, val |-> t]

KindIndex(kind) == CHOOSE i \in 1..Len(Kinds) : Kinds[i] = kind
\* the block that follows the block of a directive, or the return statement
NextPc(kind) ==
  IF KindIndex(kind) = Len(Kinds) THEN "return" ELSE Kinds[KindIndex(kind) + 1]

\* the loop of one block has run out: go on to the next block
LeaveBlock(cmdname) ==
  /\ pc' = NextPc(cmdname)
  /\ idx' = 0
  /\ UNCHANGED <<tmp, scene_objects, outcome>>

\* tmp = cmdinstance.split() for the instance the loop has come to
Cur(cmdname) == split(At(multicmds[cmdname].list, idx))

\* one pass through the loop body of a block: split the instance, then
\* raise or append as the block's code does; r is what the block's code
\* makes of the tokens
LoopBody(cmdname, r) ==
  LET t == Cur(cmdname)
  IN /\ tmp' = Bound(t)
     /\ IF r.err # ""
        THEN /\ outcome' = Raised(r.err, cmdname, t, r.reason)
             /\ pc' = "done"
             /\ UNCHANGED <<idx, scene_objects>>
        ELSE /\ scene_objects' = scene_objects \o r.appended
             /\ idx' = idx + 1
             /\ UNCHANGED <<pc, outcome>>

\* if multicmds[cmdname] is not None: for cmdinstance in multicmds[cmdname]
Block(cmdname, r) ==
  /\ mode = "parse"
  /\ IF multicmds[cmdname].isNone \/ idx >= Len(multicmds[cmdname].list)
     THEN LeaveBlock(cmdname)
     ELSE LoopBody(cmdname, r)
  /\ UNCHANGED <<mc, mode, multicmds, args, cpc, cfg, cresult>>

WaveformBlock ==
  /\ pc = "#waveform"
  /\ Block("#waveform", ParseWaveform(Cur("#waveform")))
VoltageSourceBlock ==
  /\ pc = "#voltage_source"
  /\ Block("#voltage_source", ParseVoltageSource(Cur("#voltage_source")))
HertzianDipoleBlock ==
  /\ pc = "#hertzian_dipole"
  /\ Block("#hertzian_dipole", ParseHertzianDipole(Cur("#hertzian_dipole")))
MagneticDipoleBlock ==
  /\ pc = "#magnetic_dipole"
  /\ Block("#magnetic_dipole", ParseMagneticDipole(Cur("#magnetic_dipole")))
TransmissionLineBlock ==
  /\ pc = "#transmission_line"
  /\ Block("#transmission_line", ParseTransmissionLine(Cur("#transmission_line")))
RxBlock ==
  /\ pc = "#rx"
  /\ Block("#rx", ParseRx(Cur("#rx")))
RxArrayBlock ==
  /\ pc = "#rx_array"
  /\ Block("#rx_array", ParseRxArray(Cur("#rx_array")))
SnapshotBlock ==
  /\ pc = "#snapshot"
  /\ Block("#snapshot", ParseSnapshot(Cur("#snapshot")))
MaterialBlock ==
  /\ pc = "#material"
  /\ Block("#material", ParseMaterial(Cur("#material")))
DebyeBlock ==
  /\ pc = "#add_dispersion_debye"
  /\ Block("#add_dispersion_debye", ParseDebye(Cur("#add_dispersion_debye")))
LorentzBlock ==
  /\ pc = "#add_dispersion_lorentz"
  /\ Block("#add_dispersion_lorentz", ParseLorentz(Cur("#add_dispersion_lorentz")))
DrudeBlock ==
  /\ pc = "#add_dispersion_drude"
  /\ Block("#add_dispersion_drude", ParseDrude(Cur("#add_dispersion_drude")))
SoilPeplinskiBlock ==
  /\ pc = "#soil_peplinski"
  /\ Block("#soil_peplinski", ParseSoilPeplinski(Cur("#soil_peplinski")))
GeometryViewBlock ==
  /\ pc = "#geometry_view"
  /\ Block("#geometry_view", ParseGeometryView(Cur("#geometry_view")))
GeometryObjectsWriteBlock ==
  /\ pc = "#geometry_objects_write"
  /\ Block("#geometry_objects_write", ParseGeometryObjectsWrite(Cur("#geometry_objects_write")))

\* line 316 builds its message from tmp, the tokens of the instance split
\* last in an earlier block; with no such instance tmp is an unbound local
\* and reading it raises UnboundLocalError
PMLTooMany ==
  IF tmp.bound
  THEN Raised("CmdInputError", "#pml_cfs", tmp.val, "can only be used up to two times")
  ELSE Raised("UnboundLocalError", "#pml_cfs", << >>, "local variable 'tmp' referenced before assignment")

PMLCFSBlock ==
  /\ mode = "parse"
  /\ pc = "#pml_cfs"
  /\ IF multicmds["#pml_cfs"].isNone THEN LeaveBlock("#pml_cfs")
     ELSE IF Len(multicmds["#pml_cfs"].list) > 2
     THEN /\ outcome' = PMLTooMany
          /\ pc' = "done"
          /\ UNCHANGED <<idx, tmp, scene_objects>>
     ELSE IF idx >= Len(multicmds["#pml_cfs"].list) THEN LeaveBlock("#pml_cfs")
     ELSE LoopBody("#pml_cfs", ParsePMLCFS(Cur("#pml_cfs")))
  /\ UNCHANGED <<mc, mode, multicmds, args, cpc, cfg, cresult>>

\* return scene_objects
Return ==
  /\ mode = "parse"
  /\ pc = "return"
  /\ outcome' = Returned(scene_objects)
  /\ pc' = "done"
  /\ UNCHANGED <<mc, mode, multicmds, idx, tmp, scene_objects, args, cpc, cfg, cresult>>

----------------------------------------------------------------------------
(* The argument of create_simulation_config: a Namespace.  An attribute    *)
(* that holds a file name is missing, None or a string; task and restart   *)
(* are None or an integer.                                                 *)

\* a file name string: its directories, and its last component cut at the
\* dots ("runs/scan.v1.in" is dirs <<"runs">>, name <<"scan", "v1", "in">>)
NoName == [dirs |-> << >>, name |-> << >>]
Names == {[dirs |-> << >>, name |-> <<"model", "in">>],
          [dirs |-> << >>, name |-> <<"sim">>],
          [dirs |-> <<"runs">>, name |-> <<"scan", "v1", "in">>]}
Missing == [tag |-> "missing", s |-> NoName]
NoneAttr == [tag |-> "none", s |-> NoName]
Str(name) == [tag |-> "str", s |-> name]
FileAttrs == {Missing, NoneAttr} \cup {Str(name) : name \in Names}

NoneInt == [none |-> TRUE, v |-> 0]
SomeInt(v) == [none |-> FALSE, v |-> v]
\* the truth value Python gives an optional integer in an if
Truthy(x) == ~x.none /\ x.v # 0

ArgsSet == [n : 1..MaxN,
            task : {NoneInt} \cup {SomeInt(v) : v \in 0..MaxTask},
            restart : {NoneInt} \cup {SomeInt(v) : v \in 0..MaxRestart},
            mpi : BOOLEAN, mpi_no_spawn : BOOLEAN,
            inputfile : FileAttrs, outputfile : FileAttrs]
NoArgs == [n |-> 1, task |-> NoneInt, restart |-> NoneInt, mpi |-> FALSE,
           mpi_no_spawn |-> FALSE, inputfile |-> Missing, outputfile |-> Missing]

\* pathlib.Path(name) of a string
Path(a) == [isPath |-> TRUE, dirs |-> a.s.dirs, name |-> a.s.name]
NoPath == [isPath |-> FALSE, dirs |-> << >>, name |-> << >>]

\* the object under construction; has holds the attributes assigned so far
NoConfig == [cls |-> "", has |-> {}, input_file_path |-> NoPath,
             output_file_path |-> NoPath, model_start |-> 0, model_end |-> 0,
             single_model |-> FALSE]

CRunning == [status |-> "running", err |-> ""]
CRaised(type) == [status |-> "raised", err |-> type]
CReturned == [status |-> "returned", err |-> ""]

CFail(type) ==
  /\ cresult' = CRaised(type)
  /\ cpc' = "done"
  /\ UNCHANGED cfg

\* create_simulation_config picks the class; with mpi_no_spawn set and mpi
\* not, neither branch binds sc and the return raises UnboundLocalError
CreateSimulationConfig ==
  /\ mode = "config"
  /\ cpc = "create"
  /\ IF ~args.mpi /\ ~args.mpi_no_spawn
     THEN /\ cfg' = [cfg EXCEPT !.cls = "SimulationConfig"]
          /\ cpc' = "init"
          /\ UNCHANGED cresult
     ELSE IF args.mpi
     THEN /\ cfg' = [cfg EXCEPT !.cls = "SimulationConfigMPI"]
          /\ cpc' = "init"
          /\ UNCHANGED cresult
     ELSE CFail("UnboundLocalError")
  /\ UNCHANGED <<mc, mode, args, multicmds, pc, idx, tmp, scene_objects, outcome>>

\* the plain attribute copies at the head of __init__; reading an
\* attribute the Namespace lacks raises AttributeError
InitAttributes ==
  /\ mode = "config"
  /\ cpc = "init"
  /\ IF args.inputfile.tag = "missing" THEN CFail("AttributeError")
     ELSE /\ cpc' = "set_input_file_path"
          /\ UNCHANGED <<cfg, cresult>>
  /\ UNCHANGED <<mc, mode, args, multicmds, pc, idx, tmp, scene_objects, outcome>>

SetInputFilePath ==
  /\ mode = "config"
  /\ cpc = "set_input_file_path"
  /\ IF args.inputfile.tag = "none"
     THEN IF args.outputfile.tag = "missing" THEN CFail("AttributeError")
          ELSE IF args.outputfile.tag = "none" THEN CFail("TypeError")
          ELSE /\ cfg' = [cfg EXCEPT !.input_file_path = Path(args.outputfile),
                                     !.has = @ \cup {"input_file_path"}]
               /\ cpc' = "set_output_file_path"
               /\ UNCHANGED cresult
     ELSE /\ cfg' = [cfg EXCEPT !.input_file_path = Path(args.inputfile),
                                !.has = @ \cup {"input_file_path"}]
          /\ cpc' = "set_output_file_path"
          /\ UNCHANGED cresult
  /\ UNCHANGED <<mc, mode, args, multicmds, pc, idx, tmp, scene_objects, outcome>>

\* the try catches AttributeError alone: Path(None) raises TypeError, which
\* leaves the method
SetOutputFilePath ==
  /\ mode = "config"
  /\ cpc = "set_output_file_path"
  /\ IF args.outputfile.tag = "missing"
     THEN IF args.inputfile.tag = "none" THEN CFail("TypeError")
          ELSE /\ cfg' = [cfg EXCEPT !.output_file_path = Path(args.inputfile),
                                     !.has = @ \cup {"output_file_path"}]
               /\ cpc' = "set_model_start_end"
               /\ UNCHANGED cresult
     ELSE IF args.outputfile.tag = "none" THEN CFail("TypeError")
     ELSE /\ cfg' = [cfg EXCEPT !.output_file_path = Path(args.outputfile),
                                !.has = @ \cup {"output_file_path"}]
          /\ cpc' = "set_model_start_end"
          /\ UNCHANGED cresult
  /\ UNCHANGED <<mc, mode, args, multicmds, pc, idx, tmp, scene_objects, outcome>>

\* ModelStart with the task index taken as it is, not moved to base 0
MutModelStart(a) ==
  IF Truthy(a.task) THEN a.task.v
  ELSE IF Truthy(a.restart) THEN a.restart.v - 1
  ELSE 0

ModelStart(a) ==
  IF Truthy(a.task) THEN a.task.v - 1
  ELSE IF Truthy(a.restart) THEN a.restart.v - 1
  ELSE 0

\* ModelEnd with the restart branch's "- 1" carried into the default branch
MutModelEndDefault(a) ==
  IF Truthy(a.task) THEN a.task.v
  ELSE IF Truthy(a.restart) THEN ModelStart(a) + a.n - 1
  ELSE ModelStart(a) + a.n - 1

\* ModelEnd with the restart branch counting n models, as the default does
MutModelEndRestart(a) ==
  IF Truthy(a.task) THEN a.task.v
  ELSE IF Truthy(a.restart) THEN ModelStart(a) + a.n
  ELSE ModelStart(a) + a.n

ModelEnd(a) ==
  IF Truthy(a.task) THEN a.task.v
  ELSE IF Truthy(a.restart) THEN ModelStart(a) + a.n - 1
  ELSE ModelStart(a) + a.n

SetModelStartEnd ==
  /\ mode = "config"
  /\ cpc = "set_model_start_end"
  /\ cfg.cls = "SimulationConfig"
  /\ cfg' = [cfg EXCEPT !.model_start = ModelStart(args), !.model_end = ModelEnd(args),
                        !.has = @ \cup {"model_start", "model_end"}]
  /\ cpc' = "set_single_model"
  /\ UNCHANGED <<mc, mode, args, cresult, multicmds, pc, idx, tmp, scene_objects, outcome>>

MPIModelStart(a) == IF Truthy(a.restart) THEN a.restart.v ELSE 1

\* the override assigns self.model_start, then reads self.modelstart, an
\* attribute no line assigns: AttributeError
SetModelStartEndMPI ==
  /\ mode = "config"
  /\ cpc = "set_model_start_end"
  /\ cfg.cls = "SimulationConfigMPI"
  /\ cfg' = [cfg EXCEPT !.model_start = MPIModelStart(args),
                        !.has = @ \cup {"model_start"}]
  /\ cresult' = CRaised("AttributeError")
  /\ cpc' = "done"
  /\ UNCHANGED <<mc, mode, args, multicmds, pc, idx, tmp, scene_objects, outcome>>

SingleModel(start, end) == start = 0 /\ end = 1

SetSingleModel ==
  /\ mode = "config"
  /\ cpc = "set_single_model"
  /\ cfg' = [cfg EXCEPT !.single_model = SingleModel(cfg.model_start, cfg.model_end),
                        !.has = @ \cup {"single_model"}]
  /\ cpc' = "return"
  /\ UNCHANGED <<mc, mode, args, cresult, multicmds, pc, idx, tmp, scene_objects, outcome>>

\* return sc
ReturnConfig ==
  /\ mode = "config"
  /\ cpc = "return"
  /\ cresult' = CReturned
  /\ cpc' = "done"
  /\ UNCHANGED <<mc, mode, args, cfg, multicmds, pc, idx, tmp, scene_objects, outcome>>

----------------------------------------------------------------------------
(* ModelConfig(sim_config, i), built from a constructed SimulationConfig.  *)

\* PurePath.with_suffix: the suffix of a path is the text from the last dot
\* of its name on; a name without a dot has none.  suffix is given without
\* its dot, "" for with_suffix('')
WithSuffix(path, suffix) ==
  LET stem == IF Len(path.name) >= 2 THEN SubSeq(path.name, 1, Len(path.name) - 1)
              ELSE path.name
  IN [path EXCEPT !.name = IF suffix = "" THEN stem ELSE Append(stem, suffix)]

\* self.appendmodelnumber
AppendModelNumber(single_model, i) == IF ~single_model THEN ToString(i + 1) ELSE ""

\* Path(*parts[:-1], parts[-1] + self.appendmodelnumber)
WithNumber(path, number) ==
  [path EXCEPT !.name[Len(path.name)] = @ \o number]

NoModelConfig == [built |-> FALSE, i |-> 0, appendmodelnumber |-> "",
                  output_file_path |-> NoPath, output_file_path_ext |-> NoPath]

ModelConfig(sim_config, i) ==
  LET number == AppendModelNumber(sim_config.single_model, i)
      path == WithNumber(WithSuffix(sim_config.output_file_path, ""), number)
  IN [built |-> TRUE, i |-> i, appendmodelnumber |-> number,
      output_file_path |-> path,
      output_file_path_ext |-> WithSuffix(path, "out")]

\* create_model_config(sim_config, i) for some model index i
CreateModelConfig ==
  /\ mode = "config"
  /\ cpc = "done"
  /\ cresult.status = "returned"
  /\ ~mc.built
  /\ \E i \in 0..MaxIndex : mc' = ModelConfig(cfg, i)
  /\ UNCHANGED <<mode, args, cpc, cfg, cresult, multicmds, pc, idx, tmp,
                 scene_objects, outcome>>

----------------------------------------------------------------------------
(* The specification: one call of either entry point on any argument       *)
(* within the bounds.                                                      *)

InitParse ==
  /\ mode = "parse"
  /\ multicmds \in Tables
  /\ pc = Kinds[1]
  /\ idx = 0
  /\ tmp = Unbound
  /\ scene_objects = << >>
  /\ outcome = Running
  /\ args = NoArgs
  /\ cpc = "idle"
  /\ cfg = NoConfig
  /\ cresult = CRunning
  /\ mc = NoModelConfig

InitConfig ==
  /\ mode = "config"
  /\ args \in ArgsSet
  /\ cpc = "create"
  /\ cfg = NoConfig
  /\ cresult = CRunning
  /\ mc = NoModelConfig
  /\ multicmds = [k \in KindSet |-> NoneCmd]
  /\ pc = "idle"
  /\ idx = 0
  /\ tmp = Unbound
  /\ scene_objects = << >>
  /\ outcome = Running

Init == InitParse \/ InitConfig

Next ==
  \/ WaveformBlock
  \/ VoltageSourceBlock
  \/ HertzianDipoleBlock
  \/ MagneticDipoleBlock
  \/ TransmissionLineBlock
  \/ RxBlock
  \/ RxArrayBlock
  \/ SnapshotBlock
  \/ MaterialBlock
  \/ DebyeBlock
  \/ LorentzBlock
  \/ DrudeBlock
  \/ SoilPeplinskiBlock
  \/ GeometryViewBlock
  \/ GeometryObjectsWriteBlock
  \/ PMLCFSBlock
  \/ Return
  \/ CreateSimulationConfig
  \/ InitAttributes
  \/ SetInputFilePath
  \/ SetOutputFilePath
  \/ SetModelStartEnd
  \/ SetModelStartEndMPI
  \/ SetSingleModel
  \/ ReturnConfig
  \/ CreateModelConfig

Spec == Init /\ [][Next]_vars

----------------------------------------------------------------------------
(* What the specification says of a directive instance: its valid token    *)
(* counts and the value each token is to become.                           *)

ParseDone == mode = "parse" /\ pc = "done"

\* the table holds one instance, of this directive, and nothing else
HoldsOne(kind) ==
  /\ ~multicmds[kind].isNone
  /\ Len(multicmds[kind].list) = 1
  /\ \A k \in KindSet \ {kind} : Len(multicmds[k].list) = 0
Toks(kind) == split(At(multicmds[kind].list, 0))

Dispersions == {"#add_dispersion_debye", "#add_dispersion_lorentz",
                "#add_dispersion_drude"}
\* tokens per pole: pairs for Debye and Drude, triples for Lorentz
Width(kind) == IF kind = "#add_dispersion_lorentz" THEN 3 ELSE 2
LeadingPoles(t) == IF Len(t) > 0 /\ IntOK(At(t, 0)) THEN PyInt(At(t, 0)) ELSE 0

\* whether n is a valid token count of the directive (for a dispersion
\* directive: with the pole count that leads the tokens t)
ValidCount(kind, n, t) ==
  CASE kind \in {"#voltage_source", "#transmission_line"} -> n \in {6, 8}
    [] kind \in {"#hertzian_dipole", "#magnetic_dipole"} -> n \in {5, 7}
    [] kind = "#rx" -> n = 3 \/ n >= 5
    [] kind \in Dispersions ->
         /\ LeadingPoles(t) >= 1
         /\ n >= MinArity(kind)
         /\ n >= (Width(kind) * LeadingPoles(t)) + 2
    [] OTHER -> n = MinArity(kind)

\* the places (from 0) whose tokens become floats
FloatPlaces(kind, t) ==
  CASE kind = "#waveform" -> {1, 2}
    [] kind = "#voltage_source" -> {1, 2, 3, 4, 6, 7}
    [] kind \in {"#hertzian_dipole", "#magnetic_dipole"} -> {1, 2, 3, 5, 6}
    [] kind = "#transmission_line" -> {1, 2, 3, 4}
    [] kind = "#rx" -> {0, 1, 2}
    [] kind \in {"#rx_array", "#snapshot", "#geometry_view"} -> 0..8
    [] kind = "#material" -> 0..3
    [] kind \in Dispersions -> 1..(Width(kind) * LeadingPoles(t))
    [] kind \in {"#soil_peplinski", "#geometry_objects_write"} -> 0..5
    [] kind = "#pml_cfs" -> {}

WrapInt(n) == [int |-> n]

\* the value the token at place i is to become
Converted(kind, t, i) ==
  IF i \in FloatPlaces(kind, t) THEN PyFloat(At(t, i))
  ELSE IF kind \in Dispersions /\ i = 0 THEN WrapInt(PyInt(At(t, 0)))
  ELSE IF kind = "#snapshot" /\ i = 9
    THEN (IF IntOK(At(t, 9)) THEN WrapInt(PyInt(At(t, 9))) ELSE PyFloat(At(t, 9)))
  ELSE IF kind = "#voltage_source" /\ i = 0 THEN Lower(At(t, 0))
  ELSE At(t, i)
Expected(kind, t) == [i \in 1..Len(t) |-> Converted(kind, t, i - 1)]

\* every token reads as the type its place asks for
WellTyped(kind, t) ==
  /\ \A i \in FloatPlaces(kind, t) : i < Len(t) => FloatOK(At(t, i))
  /\ kind \in Dispersions => IntOK(At(t, 0))
  /\ kind = "#snapshot" /\ Len(t) > 9 => FloatOK(At(t, 9))

\* the columns of a dispersion descriptor read pole by pole
RECURSIVE Interleave(_, _)
Interleave(cols, p) ==
  IF p > Len(cols[1]) THEN << >>
  ELSE [j \in 1..Len(cols) |-> cols[j][p]] \o Interleave(cols, p + 1)

Opt2(obj) == IF "start" \in DOMAIN obj THEN <<obj.start, obj.end>> ELSE << >>

\* the field values of a descriptor in the order of the tokens they come from
Flatten(obj) ==
  CASE obj.type = "Waveform" -> <<obj.wave_type, obj.amp, obj.freq, obj.id>>
    [] obj.type \in {"VoltageSource", "TransmissionLine"} ->
         <<obj.polarisation>> \o obj.p1 \o <<obj.resistance, obj.waveform_id>> \o Opt2(obj)
    [] obj.type \in {"HertzianDipole", "MagneticDipole"} ->
         <<obj.polarisation>> \o obj.p1 \o <<obj.waveform_id>> \o Opt2(obj)
    [] obj.type = "Rx" ->
         obj.p1 \o (IF "id" \in DOMAIN obj THEN <<obj.id>> \o obj.outputs ELSE << >>)
    [] obj.type = "RxArray" -> obj.p1 \o obj.p2 \o obj.dl
    [] obj.type = "Snapshot" ->
         obj.p1 \o obj.p2 \o obj.dl
           \o (IF "iterations" \in DOMAIN obj THEN <<WrapInt(obj.iterations)>>
               ELSE <<obj.time>>)
           \o <<obj.filename>>
    [] obj.type = "Material" -> <<obj.er, obj.se, obj.mr, obj.sm, obj.id>>
    [] obj.type = "AddDebyeDispersion" ->
         <<WrapInt(obj.pole)>> \o Interleave(<<obj.er_delta, obj.tau>>, 1)
           \o obj.material_ids
    [] obj.type = "AddLorentzDispersion" ->
         <<WrapInt(obj.poles)>> \o Interleave(<<obj.er_delta, obj.tau, obj.alpha>>, 1)
           \o obj.material_ids
    [] obj.type = "AddDrudeDispersion" ->
         <<WrapInt(obj.poles)>> \o Interleave(<<obj.tau, obj.alpha>>, 1)
           \o obj.material_ids
    [] obj.type = "SoilPeplinski" ->
         <<obj.sand_fraction, obj.clay_fraction, obj.bulk_density, obj.sand_density,
           obj.water_fraction_lower, obj.water_fraction_upper, obj.id>>
    [] obj.type = "GeometryView" ->
         obj.p1 \o obj.p2 \o obj.dl \o <<obj.filename, obj.output_type>>
    [] obj.type = "GeometryObjectsWrite" -> obj.p1 \o obj.p2 \o <<obj.filename>>
    [] obj.type = "PMLCFS" ->
         <<obj.alphascalingprofile, obj.alphascalingdirection, obj.alphamin,
           obj.alphamax, obj.kappascalingprofile, obj.kappascalingdirection,
           obj.kappamin, obj.kappamax, obj.sigmascalingprofile,
           obj.sigmascalingdirection, obj.sigmamin, obj.sigmamax>>

\* the call returned one descriptor whose fields are the tokens, place by place
OneDescriptorOf(kind) ==
  /\ outcome.status = "returned"
  /\ Len(outcome.value) = 1
  /\ Flatten(outcome.value[1]) = Expected(kind, Toks(kind))

FailedWithCmdInputError == outcome.status = "raised" /\ outcome.err = "CmdInputError"

----------------------------------------------------------------------------
(* The claims about process_multicmds.                                     *)

\* C1: for every directive kind, a table holding one instance of that kind
\* whose token count is a valid arity (its tokens reading as the types their
\* places ask for) makes process_multicmds return exactly one descriptor,
\* whose fields match the tokens positionally.
C1_ValidInstanceGivesOneDescriptor ==
  \A kind \in KindSet :
    (ParseDone /\ HoldsOne(kind)
       /\ ValidCount(kind, Len(Toks(kind)), Toks(kind))
       /\ WellTyped(kind, Toks(kind)))
    => OneDescriptorOf(kind)

\* C1 with the receiver array, the geometry objects output and the Drude
\* dispersion left out: what the other thirteen blocks do
FaultyBlocks == {"#rx_array", "#geometry_objects_write", "#add_dispersion_drude"}
C1_SoundBlocksGiveOneDescriptor ==
  \A kind \in KindSet \ FaultyBlocks :
    (ParseDone /\ HoldsOne(kind)
       /\ ValidCount(kind, Len(Toks(kind)), Toks(kind))
       /\ WellTyped(kind, Toks(kind)))
    => OneDescriptorOf(kind)

\* the token count is one short or one long of a valid token count
OneOffValid(kind, t) ==
  \/ ValidCount(kind, Len(t) + 1, t)
  \/ Len(t) > 0 /\ ValidCount(kind, Len(t) - 1, t)

\* C2 as stated: for every directive kind and every valid arity of that
\* kind, an instance with one token fewer or one token more than that arity
\* makes process_multicmds fail with CmdInputError and return nothing
\* (checked on instances whose tokens read as the types their places ask
\* for, so that no conversion fails first).
C2_OneOffAnyArityFails ==
  \A kind \in KindSet :
    (ParseDone /\ HoldsOne(kind) /\ OneOffValid(kind, Toks(kind))
       /\ WellTyped(kind, Toks(kind)))
    => FailedWithCmdInputError

\* C2 as amended: for every directive kind but the three dispersion
\* directives, an instance whose token count is one fewer or one more than
\* a valid arity of the kind, and is not itself a valid arity of the kind
\* (as six tokens are for #rx), makes process_multicmds fail with
\* CmdInputError and return nothing.
C2_OneOffInvalidCountFails ==
  \A kind \in KindSet \ Dispersions :
    (ParseDone /\ HoldsOne(kind) /\ OneOffValid(kind, Toks(kind))
       /\ ~ValidCount(kind, Len(Toks(kind)), Toks(kind)))
    => FailedWithCmdInputError /\ outcome.cmdname = kind /\ outcome.value = << >>

\* a #rx instance of four tokens, between the two valid shapes, was refused
C2_Witness ==
  /\ ParseDone /\ HoldsOne("#rx") /\ Len(Toks("#rx")) = 4
  /\ FailedWithCmdInputError

\* C9 as stated: when #pml_cfs has three or more instances and its block is
\* reached (no earlier block raised), process_multicmds fails with
\* CmdInputError, whatever else the table holds, also when no other
\* directive has an instance.
C9_ThirdPMLInstanceFails ==
  (ParseDone /\ Len(multicmds["#pml_cfs"].list) >= 3
     /\ ~(outcome.status = "raised" /\ outcome.cmdname # "#pml_cfs"))
  => FailedWithCmdInputError

\* the tokens fit the pole count: P >= 1 groups and k >= 1 material ids
ConsistentDispersion(kind, t) ==
  /\ ValidCount(kind, Len(t), t)
  /\ WellTyped(kind, t)

\* the P groups of a dispersion descriptor, pole by pole
Groups(obj) ==
  CASE obj.type = "AddDebyeDispersion" -> Interleave(<<obj.er_delta, obj.tau>>, 1)
    [] obj.type = "AddLorentzDispersion" ->
         Interleave(<<obj.er_delta, obj.tau, obj.alpha>>, 1)
    [] obj.type = "AddDrudeDispersion" -> Interleave(<<obj.tau, obj.alpha>>, 1)

\* C10 as stated: for a dispersion directive with leading pole count P and
\* a consistent token count, tokens 1..2P (Debye, Drude) or 1..3P (Lorentz)
\* become the P pairs or triples in order, and the material-id list is all
\* the tokens after that span: from index 2P+1 on for Debye and Drude, from
\* index 3P+1 on for Lorentz.
C10_DispersionPartition ==
  \A kind \in Dispersions :
    (ParseDone /\ HoldsOne(kind) /\ ConsistentDispersion(kind, Toks(kind)))
    => LET t == Toks(kind)
           span == Width(kind) * LeadingPoles(t)
       IN /\ outcome.status = "returned"
          /\ Len(outcome.value) = 1
          /\ Groups(outcome.value[1]) = [i \in 1..span |-> PyFloat(At(t, i))]
          /\ outcome.value[1].material_ids = Slice(t, span + 1, Len(t))

\* C10 for Debye and Lorentz alone
C10_DebyeLorentzPartition ==
  \A kind \in Dispersions \ {"#add_dispersion_drude"} :
    (ParseDone /\ HoldsOne(kind) /\ ConsistentDispersion(kind, Toks(kind)))
    => LET t == Toks(kind)
           span == Width(kind) * LeadingPoles(t)
       IN /\ outcome.status = "returned"
          /\ Len(outcome.value) = 1
          /\ Groups(outcome.value[1]) = [i \in 1..span |-> PyFloat(At(t, i))]
          /\ outcome.value[1].material_ids = Slice(t, span + 1, Len(t))

\* the tokens are too few for the pole count that leads them: fewer than
\* 2P + 1 + k (Debye, Drude) or 3P + 1 + k (Lorentz) with k >= 1
TooFewForPoles(kind, t) ==
  /\ LeadingPoles(t) >= 1
  /\ Len(t) < (Width(kind) * LeadingPoles(t)) + 2

DispersionTypes == {"AddDebyeDispersion", "AddLorentzDispersion", "AddDrudeDispersion"}
PolesOf(obj) == IF obj.type = "AddDebyeDispersion" THEN obj.pole ELSE obj.poles
WidthOf(obj) == IF obj.type = "AddLorentzDispersion" THEN 3 ELSE 2

\* C11 as stated: a dispersion instance whose token count is too small for
\* its leading pole count P makes process_multicmds fail with
\* CmdInputError; no dispersion descriptor is ever returned with an empty
\* material-id list or with fewer than P parameter groups.
C11_InconsistentDispersionFails ==
  /\ \A kind \in Dispersions :
       (ParseDone /\ HoldsOne(kind) /\ TooFewForPoles(kind, Toks(kind))
          /\ WellTyped(kind, Toks(kind)))
       => FailedWithCmdInputError
  /\ (ParseDone /\ outcome.status = "returned")
       => \A j \in 1..Len(outcome.value) :
            outcome.value[j].type \in DispersionTypes
            => /\ outcome.value[j].material_ids # << >>
               /\ Len(Groups(outcome.value[j]))
                    = WidthOf(outcome.value[j]) * PolesOf(outcome.value[j])

\* a table whose one instance is a #snapshot of eleven tokens, the first
\* nine of them numbers, and the call has ended
SnapshotDone ==
  /\ ParseDone /\ HoldsOne("#snapshot")
  /\ Len(Toks("#snapshot")) = 11
  /\ AllFloat(Toks("#snapshot"), 0..8)

\* C12: for a #snapshot instance with 11 tokens the 10th token is first
\* read as an integer: if that succeeds the descriptor carries an iteration
\* trigger with that integer and no time trigger; only if it fails is the
\* token read as a float, and the descriptor carries a time trigger and no
\* iteration trigger ("100" gives iterations = 100, "100.5" and "10.0" give
\* a time trigger).
C12_SnapshotTrigger ==
  SnapshotDone =>
    LET tok == At(Toks("#snapshot"), 9)
        snap == outcome.value[1]
    IN /\ IntOK(tok) =>
            /\ outcome.status = "returned" /\ Len(outcome.value) = 1
            /\ "iterations" \in DOMAIN snap /\ snap.iterations = PyInt(tok)
            /\ "time" \notin DOMAIN snap
       /\ (~IntOK(tok) /\ FloatOK(tok)) =>
            /\ outcome.status = "returned" /\ Len(outcome.value) = 1
            /\ "time" \in DOMAIN snap /\ snap.time = PyFloat(tok)
            /\ "iterations" \notin DOMAIN snap
       /\ (tok = IntTok(100) /\ outcome.status = "returned") => snap.iterations = 100
       /\ (tok = DecTok(1005) /\ outcome.status = "returned")
            => snap.time = [tenths |-> 1005]

\* the token "10.0" made a snapshot with a time trigger of 10.0 and no
\* iteration trigger
C12_Witness ==
  /\ SnapshotDone
  /\ At(Toks("#snapshot"), 9) = DecTok(100)
  /\ outcome.status = "returned"
  /\ outcome.value[1].time = [tenths |-> 100]
  /\ "iterations" \notin DOMAIN outcome.value[1]

\* the token "100" made a snapshot with an iteration trigger of 100
C12_WitnessIterations ==
  /\ SnapshotDone
  /\ At(Toks("#snapshot"), 9) = IntTok(100)
  /\ outcome.status = "returned"
  /\ outcome.value[1].iterations = 100

----------------------------------------------------------------------------
(* The claims about the configuration resolver.                            *)

NonMPI == mode = "config" /\ cfg.cls = "SimulationConfig"
RangeSet == {"model_start", "model_end"} \subseteq cfg.has
Constructed == mode = "config" /\ cresult.status = "returned"

\* C3: in the non-MPI resolver with neither task nor restart requested,
\* set_model_start_end yields model_start = 0 and model_end = n for every
\* n >= 1, and set_single_model yields single_model = true exactly when
\* model_start = 0 and model_end = 1, that is exactly when n = 1.
C3_DefaultRange ==
  (NonMPI /\ ~Truthy(args.task) /\ ~Truthy(args.restart))
  => /\ RangeSet => cfg.model_start = 0 /\ cfg.model_end = args.n
     /\ "single_model" \in cfg.has =>
          /\ cfg.single_model = (cfg.model_start = 0 /\ cfg.model_end = 1)
          /\ cfg.single_model = (args.n = 1)

\* a run of three models resolved to the range 0..3, not a single model
C3_Witness ==
  /\ Constructed /\ NonMPI /\ ~Truthy(args.task) /\ ~Truthy(args.restart)
  /\ args.n = 3 /\ cfg.model_start = 0 /\ cfg.model_end = 3 /\ ~cfg.single_model

\* C4: in the non-MPI resolver, whenever a task index t is requested,
\* model_start = t - 1 and model_end = t, whatever the model count and
\* whatever the restart argument.
C4_TaskRange ==
  (NonMPI /\ Truthy(args.task) /\ RangeSet)
  => cfg.model_start = args.task.v - 1 /\ cfg.model_end = args.task.v

\* task 2 of a three-model run with a restart also asked for gave 1..2
C4_Witness ==
  /\ Constructed /\ NonMPI /\ args.task = SomeInt(2) /\ Truthy(args.restart)
  /\ args.n = 3 /\ cfg.model_start = 1 /\ cfg.model_end = 2

\* C5: in the non-MPI resolver, with no task requested and a restart index
\* r requested, model_start = r - 1 and model_end = model_start + n - 1.
C5_RestartRange ==
  (NonMPI /\ ~Truthy(args.task) /\ Truthy(args.restart) /\ RangeSet)
  => /\ cfg.model_start = args.restart.v - 1
     /\ cfg.model_end = cfg.model_start + args.n - 1

\* restart = 2 with n = 3 gave start = 1, end = 3
C5_Witness ==
  /\ Constructed /\ NonMPI /\ ~Truthy(args.task) /\ args.restart = SomeInt(2)
  /\ args.n = 3 /\ cfg.model_start = 1 /\ cfg.model_end = 3

\* C6 as stated: every SimulationConfig the resolver constructs, for any
\* model count n >= 1, task and restart, has model_end > model_start.
C6_RangeNeverEmpty ==
  (Constructed /\ args.n >= 1) => cfg.model_end > cfg.model_start

\* C7 as stated: with args.mpi set and the file paths resolved, the MPI
\* resolver succeeds with model_start = restart if a restart is given, else
\* 1, and model_end = model_start + n.
C7_MPIRange ==
  (mode = "config" /\ cpc = "done" /\ args.mpi /\ "output_file_path" \in cfg.has)
  => /\ cresult.status = "returned"
     /\ cfg.model_start = (IF Truthy(args.restart) THEN args.restart.v ELSE 1)
     /\ cfg.model_end = cfg.model_start + args.n

OutputAbsent == args.outputfile.tag \in {"missing", "none"}
InputSupplied == args.inputfile.tag = "str"

\* C8 as stated, for the non-MPI resolver: the output path is the explicit
\* output identifier when one is supplied; when it is absent (missing or
\* None) and an input file is supplied the resolver succeeds with the
\* input-file path; when both are absent the resolver fails and produces no
\* SimulationConfig.
C8_OutputPathResolution ==
  (mode = "config" /\ cpc = "done" /\ ~args.mpi /\ ~args.mpi_no_spawn)
  => /\ (~OutputAbsent /\ Constructed)
          => cfg.output_file_path = Path(args.outputfile)
     /\ (OutputAbsent /\ InputSupplied)
          => Constructed /\ cfg.output_file_path = Path(args.inputfile)
     /\ (OutputAbsent /\ ~InputSupplied) => cresult.status = "raised"

----------------------------------------------------------------------------
(* The claims about ModelConfig.                                           *)

\* the output path of the simulation without its extension: its stem
OutputStem == WithSuffix(cfg.output_file_path, "")

\* C13 as stated: for a ModelConfig built from a SimulationConfig and a
\* zero-based index i, the suffix is the empty string when single_model is
\* true and otherwise the string of i + 1, and the model's output path is
\* the simulation output stem followed by that suffix followed by the fixed
\* extension '.out'.
C13_ModelOutputPath ==
  (mode = "config" /\ mc.built)
  => /\ mc.appendmodelnumber = (IF cfg.single_model THEN "" ELSE ToString(mc.i + 1))
     /\ mc.output_file_path_ext.dirs = OutputStem.dirs
     /\ mc.output_file_path_ext.name =
          Append(WithNumber(OutputStem, mc.appendmodelnumber).name, "out")

\* C13 where the stem of the simulation output path holds no dot
C13_DotFreeStemOutputPath ==
  (mode = "config" /\ mc.built /\ Len(OutputStem.name) = 1)
  => /\ mc.appendmodelnumber = (IF cfg.single_model THEN "" ELSE ToString(mc.i + 1))
     /\ mc.output_file_path_ext.dirs = OutputStem.dirs
     /\ mc.output_file_path_ext.name =
          Append(WithNumber(OutputStem, mc.appendmodelnumber).name, "out")

\* index 1 of a three-model run with stem "sim" got the path "sim2.out"
C13_SimTwoOut ==
  /\ mode = "config" /\ mc.built /\ mc.i = 1
  /\ cfg.model_start = 0 /\ cfg.model_end = 3
  /\ cfg.output_file_path.name = <<"sim">>
  /\ mc.output_file_path_ext.name = <<"sim2", "out">>

----------------------------------------------------------------------------
(* The claim about the order of the returned sequence.                     *)

\* the descriptor the specification names for a directive
TypeOf(kind) ==
  CASE kind = "#waveform" -> "Waveform"
    [] kind = "#voltage_source" -> "VoltageSource"
    [] kind = "#hertzian_dipole" -> "HertzianDipole"
    [] kind = "#magnetic_dipole" -> "MagneticDipole"
    [] kind = "#transmission_line" -> "TransmissionLine"
    [] kind = "#rx" -> "Rx"
    [] kind = "#rx_array" -> "RxArray"
    [] kind = "#snapshot" -> "Snapshot"
    [] kind = "#material" -> "Material"
    [] kind = "#add_dispersion_debye" -> "AddDebyeDispersion"
    [] kind = "#add_dispersion_lorentz" -> "AddLorentzDispersion"
    [] kind = "#add_dispersion_drude" -> "AddDrudeDispersion"
    [] kind = "#soil_peplinski" -> "SoilPeplinski"
    [] kind = "#geometry_view" -> "GeometryView"
    [] kind = "#geometry_objects_write" -> "GeometryObjectsWrite"
    [] kind = "#pml_cfs" -> "PMLCFS"

\* what tells one instance of a directive from another: the value of its
\* last word (none for an instance without words)
LastOf(values) == IF Len(values) = 0 THEN << >> ELSE <<values[Len(values)]>>

\* the instances of the raw table, directive by directive in the fixed order
\* from the k-th directive on, within a directive as declared; each instance
\* is named by the descriptor it asks for and by its last word
RECURSIVE InstancesFrom(_)
InstancesFrom(k) ==
  IF k > Len(Kinds) THEN << >>
  ELSE [j \in 1..Len(multicmds[Kinds[k]].list) |->
          <<TypeOf(Kinds[k]),
            LastOf(Expected(Kinds[k], split(multicmds[Kinds[k]].list[j])))>>]
       \o InstancesFrom(k + 1)

\* the returned descriptors, each named in the same way
Descriptors ==
  [j \in 1..Len(outcome.value) |->
     <<outcome.value[j].type, LastOf(Flatten(outcome.value[j]))>>]

\* C14 as stated: on success the returned sequence lists the descriptors
\* grouped by directive in the fixed order waveform, voltage source, ...,
\* geometry objects write, PML CFS, within each group in the declaration
\* order of the instances in the raw table, and its length equals the total
\* number of instances in the table.
C14_GroupedInDeclarationOrder ==
  (ParseDone /\ outcome.status = "returned")
  => /\ Len(outcome.value) = Len(InstancesFrom(1))
     /\ Descriptors = InstancesFrom(1)

\* every Drude descriptor returned has material identifiers, so that the
\* last word of its instance is among its fields
DrudeIdsKept ==
  \A j \in 1..Len(outcome.value) :
    outcome.value[j].type = "AddDrudeDispersion" => outcome.value[j].material_ids # << >>

\* C14 for tables without instances of the geometry objects output
C14_OrderWithoutGeometryObjects ==
  (ParseDone /\ outcome.status = "returned" /\ DrudeIdsKept
     /\ Len(multicmds["#geometry_objects_write"].list) = 0)
  => /\ Len(outcome.value) = Len(InstancesFrom(1))
     /\ Descriptors = InstancesFrom(1)

\* the length and the descriptor types, for tables without instances of the
\* geometry objects output
C14_LengthWithoutGeometryObjects ==
  (ParseDone /\ outcome.status = "returned"
     /\ Len(multicmds["#geometry_objects_write"].list) = 0)
  => /\ Len(outcome.value) = Len(InstancesFrom(1))
     /\ \A j \in 1..Len(outcome.value) : Descriptors[j][1] = InstancesFrom(1)[j][1]

\* a table of two directives, two instances each, declared after one
\* another, came back as four descriptors
C14_TwoGroupsReturned ==
  /\ ParseDone /\ outcome.status = "returned"
  /\ Len(multicmds["#material"].list) = 2
  /\ Len(multicmds["#add_dispersion_drude"].list) = 2
  /\ Len(outcome.value) = 4
  /\ Descriptors = InstancesFrom(1)

====
